---- MODULE Spec2Model ----
(***************************************************************************)
(* Model of packages/nodes-base/nodes/Code/Sandbox.ts: the validation of   *)
(* the value returned by user code (validateRunCodeEachItem,               *)
(* validateRunCodeAllItems, validateItem, validateTopLevelKeys) and the    *)
(* assembly of the sandbox context (getSandboxContext).                    *)
(*                                                                         *)
(* A JavaScript value is a record [t, kv, proto]: t is its run-time kind,  *)
(* kv the sequence of its own enumerable properties in iteration order     *)
(* (an array's are its indices "0", "1", ...), proto the enumerable keys   *)
(* it inherits.                                                            *)
(***************************************************************************)
EXTENDS Integers, Sequences, FiniteSets, TLC

VARIABLES textKeys, pc, op, arg, idx, res, trace, normIn,
          heap, ctxs, writes, lastWrite

vars == <<textKeys, pc, op, arg, idx, res, trace, normIn, heap, ctxs, writes, lastWrite>>

------------------------------------------------------------------------------
(* Bounds of the model *)

MaxIndex == 1
MaxKeys == 3
MaxElemKeys == 2
MaxLen == 2
MaxCalls == 2
MaxWrites == 2

------------------------------------------------------------------------------
(* JavaScript values *)

V(t, kv) == [t |-> t, kv |-> kv, proto |-> <<>>]

P(k, v) == [k |-> k, v |-> v]

Undefined == V("undefined", <<>>)
Null == V("null", <<>>)
Num == V("number", <<>>)
Bool == V("boolean", <<>>)
EmptyStr == V("string", <<>>)
\* a one-character string: its own enumerable key is the index "0"
Str == V("string", <<P("0", EmptyStr)>>)
EmptyObj == V("object", <<>>)
ObjX == V("object", <<P("x", Num)>>)

IndexKey(i) == CASE i = 1 -> "0" [] i = 2 -> "1" [] i = 3 -> "2" [] OTHER -> "3"

\* the array whose elements are the members of the sequence s
MkArray(s) == V("array", [i \in 1..Len(s) |-> P(IndexKey(i), s[i])])

Elems(a) == [i \in 1..Len(a.kv) |-> a.kv[i].v]

Arr12 == MkArray(<<Num, Num>>)

typeof(v) == IF v.t \in {"null", "array", "object"} THEN "object" ELSE v.t

IsArray(v) == v.t = "array"

IsNullish(v) == v.t \in {"undefined", "null"}

\* Object.keys(v): the own enumerable keys, in iteration order
ObjectKeys(v) == [i \in 1..Len(v.kv) |-> v.kv[i].k]

\* for (const key in v): own keys first, then the inherited ones
ForInKeys(v) == [i \in 1..Len(v.kv) |-> [key |-> v.kv[i].k, own |-> TRUE]]
                \o [i \in 1..Len(v.proto) |-> [key |-> v.proto[i], own |-> FALSE]]

HasKey(v, k) == \E i \in 1..Len(v.kv) : v.kv[i].k = k

\* v[k] for an own property, undefined when there is none
Get(v, k) ==
  IF HasKey(v, k)
  THEN (CHOOSE p \in {v.kv[i] : i \in 1..Len(v.kv)} : p.k = k).v
  ELSE Undefined

isObject(v) == v.t = "object"

REQUIRED_N8N_ITEM_KEYS == {"json", "binary", "pairedItem", "error", "index"}

------------------------------------------------------------------------------
(* Text keys and errors *)

ObjectText == [singular |-> <<"o", "b", "j", "e", "c", "t">>,
               plural |-> <<"o", "b", "j", "e", "c", "t", "s">>]

DictionaryText == [singular |-> <<"d", "i", "c", "t", "i", "o", "n", "a", "r", "y">>,
                   plural |-> <<"d", "i", "c", "t", "i", "o", "n", "a", "r", "i", "e", "s">>]

TextKeySets == {[object |-> ObjectText], [object |-> DictionaryText]}

Vowels == {"a", "e", "i", "o", "u"}

getTextKey(tk, key, includeArticle, plural) ==
  LET response == IF plural THEN tk[key].plural ELSE tk[key].singular
  IN IF ~includeArticle THEN response
     ELSE IF Len(response) > 0 /\ response[1] \in Vowels
          THEN <<"a", "n", " ">> \o response
          ELSE <<"a", " ">> \o response

NoData == Undefined

Ok(data) == [cls |-> "ok", cause |-> "none", message |-> <<>>, description |-> <<>>,
             key |-> "", itemIndex |-> {}, data |-> data]

\* ValidationError({ message, description, itemIndex }); itemIndex is optional:
\* the empty set when the error carries none.  cause and key name the error
\* of the taxonomy and the key its message or description interpolates.
ValidationError(cause, message, description, key, itemIndex) ==
  [cls |-> "ValidationError", cause |-> cause, message |-> message,
   description |-> description, key |-> key, itemIndex |-> itemIndex, data |-> NoData]

ReservedKeyFoundError(reservedKey, itemIndex) ==
  [ValidationError("ReservedKeyCollision", <<"Invalid output format">>,
                   <<"An output item contains the reserved key <code>", reservedKey,
                     "</code>. To get around this, please wrap each item in an object, under a key called <code>json</code>.">>,
                   reservedKey, {itemIndex})
   EXCEPT !.cls = "ReservedKeyFoundError"]

\* a failure that is no ValidationError: the run time's own TypeError
TypeError ==
  [cls |-> "TypeError", cause |-> "TypeError", message |-> <<>>, description |-> <<>>,
   key |-> "", itemIndex |-> {}, data |-> NoData]

IsOk(r) == r.cls = "ok"

IsError(r) == r.cls # "ok"

\* a value inside a template string: the run-time type tag stands for the text of the value
StringOf(v) == v.t

------------------------------------------------------------------------------
(* The external item normalizer: wraps a bare payload under json when no    *)
(* reserved key is present, and yields zero items for an absent result.    *)

HasReservedKey(v) == \E i \in 1..Len(v.kv) : v.kv[i].k \in REQUIRED_N8N_ITEM_KEYS

WrapItem(v) ==
  IF v.t = "object" /\ HasReservedKey(v) THEN v ELSE V("object", <<P("json", v)>>)

normalizeItems(x) ==
  IF IsNullish(x) THEN <<>>
  ELSE IF IsArray(x) THEN [i \in 1..Len(x.kv) |-> WrapItem(x.kv[i].v)]
  ELSE <<WrapItem(x)>>

------------------------------------------------------------------------------
(* Item Validator *)

validateItem_binaryFirst(tk, item, itemIndex) ==
  LET json == Get(item, "json")
      binary == Get(item, "binary")
      an == getTextKey(tk, "object", TRUE, FALSE)
  IN IF IsNullish(item) THEN TypeError
     ELSE IF binary # Undefined /\ ~isObject(binary)
     THEN ValidationError("MalformedBinary", <<"A 'binary' property isn't ">> \o an,
            <<"In the returned data, every key named 'binary' must point to ">> \o an,
            "binary", {itemIndex})
     ELSE IF json = Undefined \/ ~isObject(json)
     THEN ValidationError("MalformedJson", <<"A 'json' property isn't ">> \o an,
            <<"In the returned data, every key named 'json' must point to ">> \o an,
            "json", {itemIndex})
     ELSE Ok(NoData)

\* validateItem({ json, binary }, itemIndex): destructuring a null or
\* undefined item is a TypeError of the run time
validateItem(tk, item, itemIndex) ==
  LET json == Get(item, "json")
      binary == Get(item, "binary")
      an == getTextKey(tk, "object", TRUE, FALSE)
  IN IF IsNullish(item) THEN TypeError
     ELSE IF json = Undefined \/ ~isObject(json)
     THEN ValidationError("MalformedJson", <<"A 'json' property isn't ">> \o an,
            <<"In the returned data, every key named 'json' must point to ">> \o an,
            "json", {itemIndex})
     ELSE IF binary # Undefined /\ ~isObject(binary)
     THEN ValidationError("MalformedBinary", <<"A 'binary' property isn't ">> \o an,
            <<"In the returned data, every key named 'binary' must point to ">> \o an,
            "binary", {itemIndex})
     ELSE Ok(NoData)

------------------------------------------------------------------------------
(* Top-Level Key Guard *)

IsOwn(e) == e.own
IsReservedEntry(e) == e.key \in REQUIRED_N8N_ITEM_KEYS
IsUnknownEntry(e) == e.key \notin REQUIRED_N8N_ITEM_KEYS

UnknownKeyError(key, itemIndex) ==
  ValidationError("UnknownTopLevelKey", <<"Unknown top-level item key: ", key>>,
    <<"Access the properties of an item under .json, e.g. item.json">>,
    key, {itemIndex})

\* the guard with foundReservedKey = key in place of foundReservedKey ??= key
validateTopLevelKeys_lastReserved(item, itemIndex) ==
  LET own == SelectSeq(ForInKeys(item), IsOwn)
      reserved == SelectSeq(own, IsReservedEntry)
      unknownKeys == SelectSeq(own, IsUnknownEntry)
  IN IF Len(unknownKeys) > 0
     THEN IF reserved # <<>>
          THEN ReservedKeyFoundError(reserved[Len(reserved)].key, itemIndex)
          ELSE UnknownKeyError(unknownKeys[1].key, itemIndex)
     ELSE Ok(NoData)

\* the guard without the hasOwnProperty test
validateTopLevelKeys_inherited(item, itemIndex) ==
  LET all == ForInKeys(item)
      reserved == SelectSeq(all, IsReservedEntry)
      unknownKeys == SelectSeq(all, IsUnknownEntry)
  IN IF Len(unknownKeys) > 0
     THEN IF reserved # <<>>
          THEN ReservedKeyFoundError(reserved[1].key, itemIndex)
          ELSE UnknownKeyError(unknownKeys[1].key, itemIndex)
     ELSE Ok(NoData)

\* for (const key in item): inherited keys are skipped, foundReservedKey keeps
\* the first reserved key (??=), unknownKeys collects the others in order
validateTopLevelKeys(item, itemIndex) ==
  LET own == SelectSeq(ForInKeys(item), IsOwn)
      reserved == SelectSeq(own, IsReservedEntry)
      unknownKeys == SelectSeq(own, IsUnknownEntry)
  IN IF Len(unknownKeys) > 0
     THEN IF reserved # <<>>
          THEN ReservedKeyFoundError(reserved[1].key, itemIndex)
          ELSE UnknownKeyError(unknownKeys[1].key, itemIndex)
     ELSE Ok(NoData)

------------------------------------------------------------------------------
(* The two public entry points.  A run is the outcome of the call, the      *)
(* stages that ran, in order, and the arguments handed to the normalizer.  *)

Run(out, stages, norm) == [out |-> out, trace |-> stages, normIn |-> norm]

\* the smallest index of a sequence of outcomes that is an error
FirstErrorIndex(rs) ==
  CHOOSE i \in 1..Len(rs) : IsError(rs[i]) /\ \A j \in 1..(i - 1) : ~IsError(rs[j])

LastErrorIndex(rs) ==
  CHOOSE i \in 1..Len(rs) : IsError(rs[i]) /\ \A j \in (i + 1)..Len(rs) : ~IsError(rs[j])

AnyError(rs) == \E i \in 1..Len(rs) : IsError(rs[i])

\* the gate of both entry points: typeof executionResult !== 'object'
failsObjectGate_truthy(executionResult) ==
  typeof(executionResult) # "object" /\ executionResult # Undefined

failsObjectGate(executionResult) == typeof(executionResult) # "object"

nonObjectEach_noIndex(tk, executionResult, itemIndex) ==
  ValidationError("NonObjectResult",
    <<"Code doesn't return ">> \o getTextKey(tk, "object", TRUE, FALSE),
    <<"Please return ">> \o getTextKey(tk, "object", TRUE, FALSE)
      \o <<" representing the output item. ('", StringOf(executionResult),
           "' was returned instead.)">>,
    "", {})

nonObjectEach(tk, executionResult, itemIndex) ==
  ValidationError("NonObjectResult",
    <<"Code doesn't return ">> \o getTextKey(tk, "object", TRUE, FALSE),
    <<"Please return ">> \o getTextKey(tk, "object", TRUE, FALSE)
      \o <<" representing the output item. ('", StringOf(executionResult),
           "' was returned instead.)">>,
    "", {itemIndex})

unexpectedArray(tk, executionResult, itemIndex) ==
  LET firstSentence ==
        IF Len(executionResult.kv) > 0
        THEN <<"An array of ", typeof(executionResult.kv[1].v), "s was returned.">>
        ELSE <<"An empty array was returned.">>
  IN ValidationError("UnexpectedArray",
       <<"Code doesn't return a single ">> \o getTextKey(tk, "object", FALSE, FALSE),
       firstSentence \o <<" If you need to output multiple items, please use the 'Run Once for All Items' mode instead.">>,
       "", {itemIndex})

\* the two checks of the normalized item with the guard called first
checkReturnData_guardFirst(tk, returnData, itemIndex) ==
  LET itemCheck == validateItem(tk, returnData, itemIndex)
      keyCheck == validateTopLevelKeys(returnData, itemIndex)
  IN IF IsError(keyCheck) THEN [out |-> keyCheck, stages |-> <<"guard">>]
     ELSE IF IsError(itemCheck) THEN [out |-> itemCheck, stages |-> <<"guard", "itemValidator">>]
     ELSE [out |-> Ok(returnData), stages |-> <<"guard", "itemValidator">>]

\* this.validateItem(returnData, itemIndex);
\* this.validateTopLevelKeys(returnData, itemIndex); return returnData
checkReturnData(tk, returnData, itemIndex) ==
  LET itemCheck == validateItem(tk, returnData, itemIndex)
      keyCheck == validateTopLevelKeys(returnData, itemIndex)
  IN IF IsError(itemCheck) THEN [out |-> itemCheck, stages |-> <<"itemValidator">>]
     ELSE IF IsError(keyCheck) THEN [out |-> keyCheck, stages |-> <<"itemValidator", "guard">>]
     ELSE [out |-> Ok(returnData), stages |-> <<"itemValidator", "guard">>]

validateRunCodeEachItem(tk, executionResult, itemIndex) ==
  IF failsObjectGate(executionResult)
  THEN Run(nonObjectEach(tk, executionResult, itemIndex), <<"classifier">>, <<>>)
  ELSE IF IsArray(executionResult)
  THEN Run(unexpectedArray(tk, executionResult, itemIndex), <<"classifier">>, <<>>)
  ELSE LET normArg == MkArray(<<executionResult>>)
           normalized == normalizeItems(normArg)
           returnData == IF Len(normalized) > 0 THEN normalized[1] ELSE Undefined
           checked == checkReturnData(tk, returnData, itemIndex)
       IN Run(checked.out, <<"classifier", "normalizer">> \o checked.stages, <<normArg>>)

\* Object.keys(item).find((key) => REQUIRED_N8N_ITEM_KEYS.has(key))
HasN8nItemKey(item) ==
  \E i \in 1..Len(ObjectKeys(item)) : ObjectKeys(item)[i] \in REQUIRED_N8N_ITEM_KEYS

\* executionResult.some(...): "true", "false", or "TypeError" when Object.keys
\* meets a null or undefined element before any element with a reserved key
mustHaveTopLevelN8nKey(elems) ==
  LET hits == {i \in 1..Len(elems) : ~IsNullish(elems[i]) /\ HasN8nItemKey(elems[i])}
      nulls == {i \in 1..Len(elems) : IsNullish(elems[i])}
  IN IF \E n \in nulls : \A h \in hits : n < h THEN "TypeError"
     ELSE IF hits # {} THEN "true"
     ELSE "false"

validateEach_last(tk, returnData) ==
  LET rs == [i \in 1..Len(returnData) |-> validateItem(tk, returnData[i], i - 1)]
  IN IF AnyError(rs) THEN rs[LastErrorIndex(rs)] ELSE Ok(MkArray(returnData))

\* returnData.forEach((item, index) => this.validateItem(item, index))
validateEach(tk, returnData) ==
  LET rs == [i \in 1..Len(returnData) |-> validateItem(tk, returnData[i], i - 1)]
  IN IF AnyError(rs) THEN rs[FirstErrorIndex(rs)] ELSE Ok(MkArray(returnData))

guardEach_last(elems) ==
  LET rs == [i \in 1..Len(elems) |-> validateTopLevelKeys(elems[i], i - 1)]
  IN IF AnyError(rs) THEN rs[LastErrorIndex(rs)] ELSE Ok(NoData)

\* for (let index = 0; ...) this.validateTopLevelKeys(item, index)
guardEach(elems) ==
  LET rs == [i \in 1..Len(elems) |-> validateTopLevelKeys(elems[i], i - 1)]
  IN IF AnyError(rs) THEN rs[FirstErrorIndex(rs)] ELSE Ok(NoData)

nonObjectAll(tk) ==
  ValidationError("NonObjectResult",
    <<"Code doesn't return items properly">>,
    <<"Please return an array of ">> \o getTextKey(tk, "object", FALSE, TRUE)
      \o <<", one for each item you would like to output.">>,
    "", {})

validateRunCodeAllItems(tk, executionResult) ==
  IF failsObjectGate(executionResult)
  THEN Run(nonObjectAll(tk), <<"classifier">>, <<>>)
  ELSE LET isArr == IsArray(executionResult)
           must == IF isArr THEN mustHaveTopLevelN8nKey(Elems(executionResult)) ELSE "false"
           keyCheck == IF must = "true" THEN guardEach(Elems(executionResult)) ELSE Ok(NoData)
           pre == IF must = "true" THEN <<"classifier", "guard">> ELSE <<"classifier">>
           returnData == normalizeItems(executionResult)
           post == IF Len(returnData) > 0 THEN <<"normalizer", "itemValidator">>
                   ELSE <<"normalizer">>
       IN IF must = "TypeError" THEN Run(TypeError, pre, <<>>)
          ELSE IF IsError(keyCheck) THEN Run(keyCheck, pre, <<>>)
          ELSE Run(validateEach(tk, returnData), pre \o post, <<executionResult>>)

------------------------------------------------------------------------------
(* Inputs *)

FieldVals == {Undefined, Null, Num, Arr12, EmptyObj}

PairsOver(keys, jsonVals, binaryVals) ==
  {P("json", v) : v \in IF "json" \in keys THEN jsonVals ELSE {}}
  \cup {P("binary", v) : v \in IF "binary" \in keys THEN binaryVals ELSE {}}
  \cup {P(k, Num) : k \in keys \ {"json", "binary"}}

DistinctKeys(s) == \A i, j \in 1..Len(s) : i # j => s[i].k # s[j].k

ObjectsOver(pairs, n) ==
  {V("object", s) : s \in {q \in UNION {[1..m -> pairs] : m \in 0..n} : DistinctKeys(q)}}

Protos == {<<>>, <<"extra">>, <<"error">>}

SingleObjects ==
  {[o EXCEPT !.proto = p] :
     o \in ObjectsOver(PairsOver({"json", "binary", "foo", "bar"}, FieldVals, FieldVals), MaxKeys),
     p \in Protos}

SingleResults ==
  {Undefined, Null, Num, Bool, Str, EmptyStr,
   MkArray(<<>>), MkArray(<<Num>>), MkArray(<<EmptyObj>>)} \cup SingleObjects

ElemObjects ==
  ObjectsOver(PairsOver({"json", "binary", "foo"}, {Num, EmptyObj}, {Arr12, EmptyObj}),
              MaxElemKeys)

Elements == ElemObjects \cup {Null, Undefined, Num, Str}

Arrays == {MkArray(s) : s \in UNION {[1..m -> Elements] : m \in 0..MaxLen}}

GuardItems ==
  {[o EXCEPT !.proto = p] :
     o \in ObjectsOver(PairsOver({"json", "index", "error", "pairedItem", "foo", "bar"},
                                 {Num}, {Num}), MaxKeys),
     p \in Protos}
  \cup {Str, Num, Null, Undefined}

AllResults == {Undefined, Null, Num, Bool, Str, EmptyStr} \cup ElemObjects \cup Arrays

------------------------------------------------------------------------------
(* The calls *)

Idle ==
  /\ pc = "idle" /\ op = "none" /\ arg = Undefined /\ idx = 0
  /\ res = Ok(NoData) /\ trace = <<>> /\ normIn = <<>>

Called(name, a, i, run) ==
  /\ pc' = "done" /\ op' = name /\ arg' = a /\ idx' = i
  /\ res' = run.out /\ trace' = run.trace /\ normIn' = run.normIn
  /\ UNCHANGED <<textKeys, heap, ctxs, writes, lastWrite>>

ValidateRunCodeEachItem ==
  /\ pc = "idle"
  /\ \E r \in SingleResults, i \in 0..MaxIndex :
       Called("each", r, i, validateRunCodeEachItem(textKeys, r, i))

ValidateRunCodeAllItems ==
  /\ pc = "idle"
  /\ \E r \in AllResults :
       Called("all", r, 0, validateRunCodeAllItems(textKeys, r))

\* the caller validates again what an all-items validation returned
RevalidateOutput ==
  /\ pc = "done" /\ op \in {"all", "again"} /\ IsOk(res)
  /\ Called("again", res.data, 0, validateRunCodeAllItems(textKeys, res.data))

ValidateItem ==
  /\ pc = "idle"
  /\ \E item \in SingleObjects, i \in 0..MaxIndex :
       Called("validateItem", item, i,
              Run(validateItem(textKeys, item, i), <<"itemValidator">>, <<>>))

ValidateTopLevelKeys ==
  /\ pc = "idle"
  /\ \E item \in GuardItems, i \in 0..MaxIndex :
       Called("validateTopLevelKeys", item, i,
              Run(validateTopLevelKeys(item, i), <<"guard">>, <<>>))

\* the call is over: the sandbox keeps nothing of it
Return ==
  /\ pc = "done"
  /\ pc' = "idle" /\ op' = "none" /\ arg' = Undefined /\ idx' = 0
  /\ res' = Ok(NoData) /\ trace' = <<>> /\ normIn' = <<>>
  /\ UNCHANGED <<textKeys, heap, ctxs, writes, lastWrite>>

------------------------------------------------------------------------------
(* The sandbox context.  The heap is a sequence of objects, an object's    *)
(* identity its place in it; a property holds a primitive or a reference.  *)

Prim(n) == [ref |-> FALSE, n |-> n]
Ref(id) == [ref |-> TRUE, n |-> id]

Object(kv) == [cls |-> "object", kv |-> kv, target |-> 0, boundThis |-> 0]
Function == [cls |-> "function", kv |-> <<>>, target |-> 0, boundThis |-> 0]

\* f.bind(thisArg): a new function object
Bind(f, thisArg) == [cls |-> "bound", kv |-> <<>>, target |-> f, boundThis |-> thisArg]

HasProp(kv, k) == \E i \in 1..Len(kv) : kv[i].k = k

PropOf(kv, k) == (CHOOSE e \in {kv[i] : i \in 1..Len(kv)} : e.k = k).v

\* obj[k] = v: an existing key keeps its place, a new one is appended
SetProp(kv, k, v) ==
  IF HasProp(kv, k)
  THEN [i \in 1..Len(kv) |-> IF kv[i].k = k THEN P(k, v) ELSE kv[i]]
  ELSE Append(kv, P(k, v))

RECURSIVE SpreadInto(_, _)
\* { ...target, ...source }: the own properties of source, in order
SpreadInto(target, source) ==
  IF source = <<>> THEN target
  ELSE SpreadInto(SetProp(target, source[1].k, source[1].v), Tail(source))

\* the caller, `this`: an execution-functions object of the host engine
This == 1

CallerHeap ==
  << Object(<<P("helpers", Ref(2)), P("getNodeParameter", Ref(6)),
              P("getWorkflowStaticData", Ref(7)), P("getWorkflowDataProxy", Ref(8))>>),
     Object(<<P("httpRequestWithAuthentication", Ref(3)),
              P("requestWithAuthenticationPaginated", Ref(4)),
              P("returnJsonArray", Ref(5))>>),
     Function, Function, Function, Function, Function, Function >>

\* the external data-proxy factory: fresh bindings for one item index
getWorkflowDataProxy(dataId, index) ==
  <<P("$itemIndex", Prim(index)), P("$json", Ref(dataId))>>

\* the helpers bundle built by assigning the bound helpers on this.helpers
getSandboxContext_sharedHelpers(h, index) ==
  LET n == Len(h)
      thisHelpers == PropOf(h[This].kv, "helpers").n
      helpersKv ==
        SpreadInto(h[thisHelpers].kv,
          <<P("httpRequestWithAuthentication", Ref(n + 1)),
            P("requestWithAuthenticationPaginated", Ref(n + 2))>>)
      context ==
        SpreadInto(
          <<P("$getNodeParameter", Ref(n + 3)), P("$getWorkflowStaticData", Ref(n + 4)),
            P("helpers", Ref(thisHelpers))>>,
          getWorkflowDataProxy(n + 5, index))
  IN [heap |-> [h EXCEPT ![thisHelpers].kv = helpersKv]
               \o << Bind(PropOf(h[thisHelpers].kv, "httpRequestWithAuthentication").n, This),
                     Bind(PropOf(h[thisHelpers].kv, "requestWithAuthenticationPaginated").n, This),
                     Bind(PropOf(h[This].kv, "getNodeParameter").n, This),
                     Bind(PropOf(h[This].kv, "getWorkflowStaticData").n, This),
                     Object(<<>>),
                     Object(context) >>,
      ctx |-> n + 6]

getSandboxContext(h, index) ==
  LET n == Len(h)
      thisHelpers == PropOf(h[This].kv, "helpers").n
      helpersKv ==
        SpreadInto(SpreadInto(<<>>, h[thisHelpers].kv),
          <<P("httpRequestWithAuthentication", Ref(n + 1)),
            P("requestWithAuthenticationPaginated", Ref(n + 2))>>)
      context ==
        SpreadInto(
          <<P("$getNodeParameter", Ref(n + 4)), P("$getWorkflowStaticData", Ref(n + 5)),
            P("helpers", Ref(n + 3))>>,
          getWorkflowDataProxy(n + 6, index))
  IN [heap |-> h
               \o << Bind(PropOf(h[thisHelpers].kv, "httpRequestWithAuthentication").n, This),
                     Bind(PropOf(h[thisHelpers].kv, "requestWithAuthenticationPaginated").n, This),
                     Object(helpersKv),
                     Bind(PropOf(h[This].kv, "getNodeParameter").n, This),
                     Bind(PropOf(h[This].kv, "getWorkflowStaticData").n, This),
                     Object(<<>>),
                     Object(context) >>,
      ctx |-> n + 7]

\* the objects a holder of object id reaches through at most two properties
RefsFrom(h, o) == {h[o].kv[i].v.n : i \in {j \in 1..Len(h[o].kv) : h[o].kv[j].v.ref}}

RefsOf(h, ids) == UNION {RefsFrom(h, o) : o \in ids}

Reach(h, id) == {id} \cup RefsOf(h, {id}) \cup RefsOf(h, RefsOf(h, {id}))

RECURSIVE View(_, _, _)
\* what a holder of value v observes, following references to depth d
View(h, v, d) ==
  IF ~v.ref THEN <<"prim", v.n>>
  ELSE IF d = 0 THEN <<"ref">>
  ELSE <<h[v.n].cls, [i \in 1..Len(h[v.n].kv) |-> <<h[v.n].kv[i].k, View(h, h[v.n].kv[i].v, d - 1)>>]>>

ViewDepth == 3

CtxView(h, c) == View(h, Ref(c.ctx), ViewDepth)

NoWrite == [ctx |-> 0, obj |-> 0]

CtxIdle == heap = CallerHeap /\ ctxs = <<>> /\ writes = 0 /\ lastWrite = NoWrite

\* the host engine builds the context of one item
GetSandboxContext ==
  /\ Len(ctxs) < MaxCalls
  /\ \E index \in 0..MaxIndex :
       LET made == getSandboxContext(heap, index)
       IN /\ heap' = made.heap
          /\ ctxs' = Append(ctxs, [index |-> index, ctx |-> made.ctx])
  /\ UNCHANGED <<writes, lastWrite>>
  /\ UNCHANGED <<textKeys, pc, op, arg, idx, res, trace, normIn>>

\* user code assigns a property of an object it reaches from its context
WriteThrough ==
  /\ writes < MaxWrites
  /\ \E c \in 1..Len(ctxs) : \E o \in Reach(heap, ctxs[c].ctx) :
       /\ heap' = [heap EXCEPT ![o].kv = SetProp(@, "x", Prim(writes + 1))]
       /\ lastWrite' = [ctx |-> c, obj |-> o]
  /\ writes' = writes + 1
  /\ UNCHANGED ctxs
  /\ UNCHANGED <<textKeys, pc, op, arg, idx, res, trace, normIn>>

InitCtx ==
  /\ textKeys = [object |-> ObjectText]
  /\ Idle
  /\ CtxIdle

NextCtx ==
  \/ GetSandboxContext
  \/ WriteThrough

SpecCtx == InitCtx /\ [][NextCtx]_vars

Init ==
  /\ textKeys \in TextKeySets
  /\ Idle
  /\ CtxIdle

Next ==
  \/ ValidateRunCodeEachItem
  \/ ValidateRunCodeAllItems
  \/ RevalidateOutput
  \/ ValidateItem
  \/ ValidateTopLevelKeys
  \/ Return

Spec == Init /\ [][Next]_vars

------------------------------------------------------------------------------
(* Properties *)

Min(S) == CHOOSE m \in S : \A n \in S : m <= n

\* "Code doesn't return a/an <noun>", the article chosen by the first letter
NonObjectMessage ==
  <<"Code doesn't return ">>
  \o (IF textKeys.object.singular[1] \in {"a", "e", "i", "o", "u"}
      THEN <<"a", "n", " ">> ELSE <<"a", " ">>)
  \o textKeys.object.singular

NonObjectEachOutcome ==
  /\ res.cls = "ValidationError"
  /\ res.cause = "NonObjectResult"
  /\ res.message = NonObjectMessage
  /\ res.itemIndex = {idx}
  /\ normIn = <<>>

\* C1 as stated: single-item validation of any value that is neither a structured
\* object nor an array (numbers, strings, booleans, null, undefined) raises
\* Non-object-result with itemIndex = i without calling the normalizer.
C1_NullLikeRejected ==
  (op = "each" /\ arg.t \notin {"object", "array"}) => NonObjectEachOutcome

\* C1 amended: single-item validation of a number, a string, a boolean or
\* undefined raises Non-object-result ("Code doesn't return a/an <noun>") with
\* itemIndex = i without calling the normalizer; null passes the gate and is
\* handed to the normalizer.
C1_NonObjectRejected ==
  /\ (op = "each" /\ arg.t \in {"number", "string", "boolean", "undefined"})
       => NonObjectEachOutcome
  /\ (op = "each" /\ arg = Null)
       => (normIn = <<MkArray(<<Null>>)>> /\ res.cause # "NonObjectResult")

C1_Witness ==
  op = "each" /\ arg = Str /\ idx = 1 /\ res.cause = "NonObjectResult"
  /\ res.itemIndex = {1}

C3_Idempotent ==
  (op = "again") => (IsOk(res) /\ res.data = arg)

\* the elements of an array, by what the claims say of them
ArgElems == Elems(arg)

OwnKeys(v) == {v.kv[i].k : i \in 1..Len(v.kv)}

ReservedKeys == {"json", "binary", "pairedItem", "error", "index"}

SomeElemReserved == \E i \in 1..Len(ArgElems) : OwnKeys(ArgElems[i]) \cap ReservedKeys # {}

ElemsWithUnknownKey == {i \in 1..Len(ArgElems) : OwnKeys(ArgElems[i]) \ ReservedKeys # {}}

GuardOffenders == IF SomeElemReserved THEN ElemsWithUnknownKey ELSE {}

StructuredField(v, k) == HasKey(v, k) /\ Get(v, k).t = "object"

MalformedItem(v) ==
  \/ ~StructuredField(v, "json")
  \/ (HasKey(v, "binary") /\ Get(v, "binary").t \notin {"undefined", "object"})

ItemOffenders ==
  {i \in 1..Len(ArgElems) : i <= Len(normalizeItems(arg)) /\ MalformedItem(normalizeItems(arg)[i])}

ArrayCall == op \in {"all", "again"} /\ IsArray(arg)

\* C4 as stated: the index an all-items validation of an array reports is the
\* lowest index among all offending elements, guard and Item Validator alike.
C4_LowestOffender ==
  (ArrayCall /\ res.itemIndex # {})
    => res.itemIndex = {Min(GuardOffenders \cup ItemOffenders) - 1}

\* C4 amended: when the guard applies and some element violates it, the index
\* reported is the lowest index among the elements violating the guard, even
\* if an element of a lower index violates the Item Validator; otherwise it
\* is the lowest index among the normalized items violating the Item Validator.
C4_LowestPerPass ==
  (ArrayCall /\ res.itemIndex # {})
    => IF GuardOffenders # {}
       THEN /\ res.cause \in {"UnknownTopLevelKey", "ReservedKeyCollision"}
            /\ res.itemIndex = {Min(GuardOffenders) - 1}
       ELSE /\ res.cause \in {"MalformedJson", "MalformedBinary"}
            /\ res.itemIndex = {Min(ItemOffenders) - 1}

C4_Witness ==
  /\ op = "all" /\ IsArray(arg)
  /\ GuardOffenders # {}
  /\ ItemOffenders # {} /\ Min(ItemOffenders) < Min(GuardOffenders)
  /\ res.itemIndex = {Min(GuardOffenders) - 1}

\* C5: an all-items validation returns a sequence of items or fails with a
\* ValidationError (or ReservedKeyFoundError) carrying message and
\* description, never with another kind of error.
C5_OnlyValidationErrors ==
  (op \in {"all", "again"})
    => \/ IsOk(res)
       \/ /\ res.cls \in {"ValidationError", "ReservedKeyFoundError"}
          /\ res.message # <<>> /\ res.description # <<>>

ArgKeys == ObjectKeys(arg)

ReservedAt == {i \in 1..Len(ArgKeys) : ArgKeys[i] \in ReservedKeys}

UnknownAt == {i \in 1..Len(ArgKeys) : ArgKeys[i] \notin ReservedKeys}

\* C6: the guard passes iff the item has no own key outside the reserved set;
\* with an unknown key and a reserved key it raises ReservedKeyFoundError
\* naming the first reserved key, with an unknown key and no reserved key a
\* generic ValidationError naming the first unknown key; both carry itemIndex = i.
C6_GuardOutcome ==
  (op = "validateTopLevelKeys")
    => /\ IsOk(res) <=> UnknownAt = {}
       /\ (UnknownAt # {} /\ ReservedAt # {})
            => /\ res.cls = "ReservedKeyFoundError"
               /\ res.key = ArgKeys[Min(ReservedAt)]
               /\ res.itemIndex = {idx}
       /\ (UnknownAt # {} /\ ReservedAt = {})
            => /\ res.cls = "ValidationError"
               /\ res.cause = "UnknownTopLevelKey"
               /\ res.message = <<"Unknown top-level item key: ", ArgKeys[Min(UnknownAt)]>>
               /\ res.itemIndex = {idx}

C6_Witness ==
  /\ op = "validateTopLevelKeys" /\ idx = 1
  /\ Cardinality(ReservedAt) = 2 /\ UnknownAt # {} /\ Min(UnknownAt) < Min(ReservedAt)
  /\ res.cls = "ReservedKeyFoundError" /\ res.key = ArgKeys[Min(ReservedAt)]

Before(a, b) ==
  \E i, j \in 1..Len(trace) : i < j /\ trace[i] = a /\ trace[j] = b

Ran(stage) == \E i \in 1..Len(trace) : trace[i] = stage

\* C7: on an array the guard is applied iff some element has a reserved key:
\* then it runs before the normalizer and the first element with an unknown
\* key fails the call with its index, the normalizer not being called;
\* otherwise the guard is skipped, no guard error is raised and the whole
\* array is handed to the normalizer.
C7_GuardIffReserved ==
  (op = "all" /\ IsArray(arg))
    => IF SomeElemReserved
       THEN /\ Ran("guard") /\ ~Before("normalizer", "guard")
            /\ (ElemsWithUnknownKey # {})
                 => /\ res.cause \in {"UnknownTopLevelKey", "ReservedKeyCollision"}
                    /\ res.itemIndex = {Min(ElemsWithUnknownKey) - 1}
                    /\ normIn = <<>>
       ELSE /\ ~Ran("guard")
            /\ res.cause \notin {"UnknownTopLevelKey", "ReservedKeyCollision"}
            /\ normIn = <<arg>>

JsonBad == ~HasKey(arg, "json") \/ Get(arg, "json").t # "object"

BinaryBad == HasKey(arg, "binary") /\ Get(arg, "binary").t \notin {"undefined", "object"}

\* C8: the Item Validator raises Malformed-json-field iff json is undefined
\* or no structured object; otherwise Malformed-binary-field iff binary is
\* defined and no structured object; otherwise it passes.  The errors carry
\* itemIndex = i and nothing but json and binary decides the outcome.
C8_ItemValidator ==
  (op = "validateItem")
    => /\ (res.cause = "MalformedJson") <=> JsonBad
       /\ (res.cause = "MalformedBinary") <=> (~JsonBad /\ BinaryBad)
       /\ IsOk(res) <=> (~JsonBad /\ ~BinaryBad)
       /\ IsError(res) => (res.cls = "ValidationError" /\ res.itemIndex = {idx})

C8_Witness ==
  /\ op = "validateItem" /\ idx = 1
  /\ Get(arg, "json") = EmptyObj /\ Get(arg, "binary") = Arr12 /\ HasKey(arg, "foo")
  /\ res.cause = "MalformedBinary" /\ res.itemIndex = {1}

StageRank(stage) ==
  CASE stage = "classifier" -> 1
    [] stage = "normalizer" -> 2
    [] stage = "itemValidator" -> 3
    [] stage = "guard" -> 4

StageOf(cause) ==
  CASE cause \in {"NonObjectResult", "UnexpectedArray", "TypeError"} -> "classifier"
    [] cause \in {"MalformedJson", "MalformedBinary"} -> "itemValidator"
    [] cause \in {"UnknownTopLevelKey", "ReservedKeyCollision"} -> "guard"

IsPrefix(s, t) == Len(s) <= Len(t) /\ \A i \in 1..Len(s) : s[i] = t[i]

StopsAtFailure == IsError(res) => trace[Len(trace)] = StageOf(res.cause)

WroteThrough(c) == writes' = writes + 1 /\ lastWrite'.ctx = c

OthersUnchanged(c) ==
  \A b \in 1..Len(ctxs) :
    (b # c /\ ctxs[b].index # ctxs[c].index) => CtxView(heap', ctxs[b]) = CtxView(heap, ctxs[b])

CallerUntouched ==
  (Len(ctxs') = Len(ctxs) + 1)
    => /\ \A o \in 1..Len(CallerHeap) : heap'[o] = heap[o]
       /\ \A b \in 1..Len(ctxs) : CtxView(heap', ctxs[b]) = CtxView(heap, ctxs[b])

\* C9 as stated: contexts built for different item indices share no mutable
\* state: no write made through one of them, to the context, to its helpers
\* bundle or to anything reachable from them, is observable through the
\* other, and building a context changes neither the caller nor its helpers.
C9_NothingShared ==
  [][(\A c \in 1..Len(ctxs) : WroteThrough(c) => OthersUnchanged(c)) /\ CallerUntouched]_vars

\* the context object of place c and its helpers bundle
OwnBundle(c) == {ctxs[c].ctx, PropOf(heap[ctxs[c].ctx].kv, "helpers").n}

\* C9 amended: contexts built for different item indices are distinct objects
\* with distinct helpers bundles: no property assigned on one returned context
\* or on its helpers bundle is observable through the other, and building a
\* context changes neither the caller nor the caller's helpers bundle.  The
\* pass-through helpers are copied by reference, so a write to one of them made
\* through one context is observable through the other.
C9_BundlesNotShared ==
  [][(\A c \in 1..Len(ctxs) :
        (WroteThrough(c) /\ lastWrite'.obj \in OwnBundle(c)) => OthersUnchanged(c))
     /\ CallerUntouched]_vars

C9_Witness ==
  /\ Len(ctxs) = 2 /\ ctxs[1].index # ctxs[2].index
  /\ lastWrite.ctx = 1
  /\ lastWrite.obj = PropOf(heap[ctxs[1].ctx].kv, "helpers").n
  /\ HasProp(heap[lastWrite.obj].kv, "x")
  /\ ~HasProp(heap[PropOf(heap[ctxs[2].ctx].kv, "helpers").n].kv, "x")

====
